---- MODULE Spec2Model ----
(***************************************************************************)
(* Model of the client-side batch conversion pipeline of media-converter   *)
(* (class MediaConverter, src/CONTRIBUTING.md lines 266-1885).             *)
(*                                                                         *)
(* The browser runs one handler at a time.  A handler runs until it awaits *)
(* something only a later task can deliver (a timer, an element event, a   *)
(* worker reply); every such await is a "wait" position of the model.      *)
(* Positions between two waits are "sync" positions: while some invocation *)
(* is at a sync position no other handler may step (see Busy).             *)
(***************************************************************************)
EXTENDS Integers, Sequences, FiniteSets, TLC

\* ------------------------------------------------------------------ bounds
\* convertMedia invocations that may be alive at once (the guard of
\* convertMedia is what keeps all but one of them from entering the loop).
MaxCalls == 2
\* longest file list a single drop / file-input change delivers
MaxFiles == 2

Calls == 1..MaxCalls

\* callers that call loadFFmpeg themselves, when the method is looked at on
\* its own; they exist next to the convertMedia invocations
MaxLoaders == 3
Loaders == (MaxCalls + 1)..(MaxCalls + MaxLoaders)
Slots == Calls \cup Loaders

\* ------------------------------------------------------------------- files
\* The files the user can offer: one image, one video, one file that is
\* neither.  A file is known by its name; Category and Size are its
\* file.type prefix and file.size.
Files == {"a.png", "b.mp4", "c.txt"}

Category(f) ==
    CASE f = "a.png" -> "image"
      [] f = "b.mp4" -> "video"
      [] OTHER       -> "other"

Size(f) ==
    CASE f = "a.png" -> 10
      [] f = "b.mp4" -> 20
      [] OTHER       -> 5

\* file.type.startsWith('image/'), file.type.startsWith('video/')
IsImage(f) == Category(f) = "image"
IsVideo(f) == Category(f) = "video"
\* a filter that lets every file through
AnyFile(f) == TRUE
IsMedia(f) == IsImage(f) \/ IsVideo(f)

\* the lists a drop or a file-input change can deliver
DropLists ==
    {s \in UNION {[1..n -> Files] : n \in 0..MaxFiles} :
        \A k, l \in DOMAIN s : k # l => s[k] # s[l]}

\* sizes an encoder / transcoder may produce for input f
EncodedSizes(f) == {Size(f) \div 2, Size(f)}

NULL == [null |-> TRUE]

VARIABLES
    selectedFiles,    \* this.selectedFiles
    convertedMedia,   \* this.convertedMedia
    isConverting,     \* this.isConverting
    ffmpegLoaded,     \* this.ffmpegLoaded
    ffmpegLoading,    \* this.ffmpegLoading
    mediaType,        \* value of the #mediaType select
    notification,     \* text of the last showNotification / showError
    cm,               \* convertMedia invocations: position and locals
    pf,               \* position of the processFiles invocation
    call              \* what is looked at on its own: a call of one of the
                      \* pure methods (its arguments, its position, what it
                      \* returned), the engine's namespace, the page's
                      \* controls, or the download server of src/server.js

vars == <<selectedFiles, convertedMedia, isConverting, ffmpegLoaded,
          ffmpegLoading, mediaType, notification, cm, pf, call>>

\* values of the #formatSelect and #videoFormatSelect selects; the user's
\* changes of them and suggestImageFormat's are left out
FormatSelect == "webp"
VideoFormatSelect == "mp4"

\* showNotification(message) / showError(message): the two messages of
\* convertMedia's guards and the one of processFiles about skipped files are
\* told apart, every other text is "other"
Note(message) ==
    IF message \in {"please select files first",
                    "conversion already in progress",
                    "unsupported files skipped"}
    THEN message
    ELSE "other"

\* ------------------------------------------------------ invocation records
\* Locals of one convertMedia invocation and of the stage it is awaiting.
\*   loaded    the const `loaded` of convertMedia: "yes", "no", or "unset"
\*             when line 915 was not reached
\*   loadRet   the value the last loadFFmpeg() call returned to this caller
\*   loadVia   the return statement it came from: "flags" (line 323, the
\*             test of the two flags) or "load" (after ffmpeg.load)
\*   ffCall    which of the two convertVideoWithFFmpeg calls of
\*             convertSingleVideoAsync is running (0: none)
\*   execs     ffmpeg.exec calls made for the file at hand
\*   revokes   URL.revokeObjectURL(fileURL) calls made by the image stage
\*             of the file at hand
\*   quality   the const `quality` of convertMedia, in percent (0 before
\*             it is read)
\*   argsQuality   the quality buildFFmpegArgs read for the attempt that is
\*             running (0 outside of one)
\*   inputName, outputName   the two working names of the transcode
\*             attempt that is running (NULL outside of one)
\*   deleteFailed   a deleteFile call of the attempt threw
\*   outcome   how the stage of the file at hand settled, ret with what
IdleCall ==
    [pc |-> "idle", i |-> 0, successCount |-> 0, failureCount |-> 0,
     format |-> "none", loaded |-> "unset", file |-> "none", ffCall |-> 0,
     retpc |-> "none", loadRet |-> FALSE, loadVia |-> "none",
     outSize |-> 0, execs |-> 0,
     revokes |-> 0, quality |-> 0, argsQuality |-> 0,
     inputName |-> NULL, outputName |-> NULL,
     deleteFailed |-> FALSE, outcome |-> "none", ret |-> NULL]

IdlePf == [pc |-> "idle"]

\* positions at which an invocation continues without returning to the
\* event loop
SyncPcs == {"load_enter", "cm_loaded", "cm_setup", "cm_loop", "cm_summary",
            "ff_enter", "ff_loaded"}

\* positions inside a per-file stage (convertSingleImageAsync or
\* convertSingleVideoAsync, with everything they call)
ImagePcs == {"img_load", "img_draw", "img_encode", "img_blob"}
VideoPcs == {"ff_enter", "ff_loaded", "ff_yield", "ff_write", "ff_exec",
             "ff_read", "ff_delete", "ff_probe", "fb_yield", "fb_probe"}

InStage(c) ==
    \/ cm[c].pc \in ImagePcs \cup VideoPcs
    \/ cm[c].pc \in {"load_enter", "load_wait"} /\ cm[c].retpc = "ff_loaded"

Busy == \E c \in Slots : cm[c].pc \in SyncPcs

\* the slot a new convertMedia invocation is given
FreeCall(c) ==
    /\ cm[c].pc = "idle"
    /\ \A d \in Calls : d < c => cm[d].pc # "idle"

Upper(fmt) ==
    CASE fmt = "png"  -> "PNG"
      [] fmt = "webp" -> "WEBP"
      [] fmt = "jpeg" -> "JPEG"
      [] fmt = "mp4"  -> "MP4"
      [] OTHER        -> fmt

\* no call of a pure method on its own
NoCall == [fn |-> "none"]

\* the object after construction
Constructed ==
    /\ selectedFiles = <<>>
    /\ convertedMedia = <<>>
    /\ isConverting = FALSE
    /\ ffmpegLoaded = FALSE
    /\ ffmpegLoading = FALSE
    /\ mediaType = "image"
    /\ notification = Note("")
    /\ cm = [c \in Slots |-> IdleCall]
    /\ pf = IdlePf

Init ==
    /\ Constructed
    /\ call = NoCall

\* ------------------------------------------------------------------ strings
\* A string is a sequence of atoms.  An atom is a run of characters with no
\* '.', '/', '{' or '}' in it ("vacation", "png", "005"), or the character
\* '.' or '/', or a whole brace token ("{name}", "{foo}").  Strings with a
\* '$' are left out: String.replace would read '$&' and the like in the
\* replacement text as patterns.
Dot == "."
Slash == "/"

\* s.indexOf(a) and s.lastIndexOf(a): 0-based, -1 when a is absent
IndexOf(s, a) ==
    IF \E k \in DOMAIN s : s[k] = a
    THEN (CHOOSE k \in DOMAIN s :
              s[k] = a /\ \A l \in DOMAIN s : l < k => s[l] # a) - 1
    ELSE -1

LastIndexOf(s, a) ==
    IF \E k \in DOMAIN s : s[k] = a
    THEN (CHOOSE k \in DOMAIN s :
              s[k] = a /\ \A l \in DOMAIN s : l > k => s[l] # a) - 1
    ELSE -1

\* s.substring(from, to): arguments below 0 count as 0, above the length
\* as the length, and the smaller one is the start
Substring(s, from, to) ==
    LET clamp(n) == IF n < 0 THEN 0 ELSE IF n > Len(s) THEN Len(s) ELSE n
        a == clamp(from)
        b == clamp(to)
    IN  SubSeq(s, (IF a < b THEN a ELSE b) + 1, IF a < b THEN b ELSE a)

\* s.split(sep).pop(): what follows the last sep, all of s when there is none
SplitPop(s, sep) == SubSeq(s, LastIndexOf(s, sep) + 2, Len(s))

\* s.replace(token, text) with a string token: the first occurrence only
Replace(s, token, text) ==
    LET k == IndexOf(s, token)
    IN  IF k = -1 THEN s
        ELSE SubSeq(s, 1, k) \o text \o SubSeq(s, k + 2, Len(s))

\* s.toLowerCase()
ToLowerCase(s) ==
    [k \in DOMAIN s |->
        CASE s[k] = "PNG" -> "png"
          [] s[k] = "JPG" -> "jpg"
          [] s[k] = "MOV" -> "mov"
          [] OTHER        -> s[k]]

\* String(n).padStart(3, '0'), for 0 <= n < 1000
PadStart3(n) ==
    IF n < 10 THEN "00" \o ToString(n)
    ELSE IF n < 100 THEN "0" \o ToString(n)
    ELSE ToString(n)

\* file.name of the files of Files
FileName(f) ==
    CASE f = "a.png" -> <<"a", Dot, "png">>
      [] f = "b.mp4" -> <<"b", Dot, "mp4">>
      [] OTHER       -> <<"c", Dot, "txt">>

\* applyFileNamePattern.  The three clock readings are atoms of their own;
\* none of them has a '.' in it.
applyFileNamePattern(pattern, originalName, index) ==
    LET nameWithoutExt ==
            Substring(originalName, 0, LastIndexOf(originalName, Dot))
        ext == SplitPop(originalName, Dot)
        r1 == Replace(pattern, "{name}", nameWithoutExt)
        r2 == Replace(r1, "{index}", <<PadStart3(index + 1)>>)
        r3 == Replace(r2, "{format}", ToLowerCase(ext))
        r4 == Replace(r3, "{original_format}", ToLowerCase(ext))
        r5 == Replace(r4, "{date}", <<"<date>">>)
        r6 == Replace(r5, "{time}", <<"<time>">>)
    IN  Replace(r6, "{timestamp}", <<"<timestamp>">>)

\* getConvertedFileName
getConvertedFileName(originalName, targetFormat) ==
    Substring(originalName, 0, LastIndexOf(originalName, Dot))
        \o <<Dot, targetFormat>>

\* ------------------------------------------------------ the page's controls
\* The values of the quality slider and of the filename pattern input are
\* followed only where the settings are looked at on their own
\* (call.fn = "settings", see SpecSettings); elsewhere the controls stay as
\* the page loads them.
QualityDefault == 85

SettingsFollowed == call.fn = "settings"

NewSettings ==
    [fn |-> "settings", qualitySlider |-> QualityDefault,
     filenamePattern |-> <<>>]

\* the .value of the control with the given id
Control(id) ==
    IF SettingsFollowed THEN call[id]
    ELSE IF id = "qualitySlider" THEN QualityDefault
    ELSE <<>>

\* the keys of this.elements, the table initializeEventListeners fills
Elements ==
    {"fileInput", "uploadArea", "convertBtn", "mediaType", "formatSelect",
     "videoFormatSelect", "qualitySlider", "qualityValue", "themeToggle",
     "advancedToggle", "progressSection", "previewSection"}

\* the keys of this.elements the stages read their settings from
PipelineKeys ==
    {"mediaType", "formatSelect", "videoFormatSelect", "qualitySlider",
     "brightnessSlider", "contrastSlider", "saturationSlider",
     "filenamePattern", "resizeWidth", "resizeHeight", "lockAspect"}

\* this.elements.filenamePattern?.value || '{name}': undefined when the
\* table has no such key, and an empty value counts as none
FilenamePattern ==
    IF "filenamePattern" \in Elements /\ Control("filenamePattern") # <<>>
    THEN Control("filenamePattern")
    ELSE <<"{name}">>

\* ------------------------------------------------------------ small helpers
\* the name a stage gives its result: applyFileNamePattern(pattern,
\* file.name, index), then getConvertedFileName(fileName, targetFormat)
OutputName(file, index, targetFormat) ==
    getConvertedFileName(
        applyFileNamePattern(FilenamePattern, FileName(file), index),
        targetFormat)

\* the record convertSingleImageAsync resolves with (isVideo and
\* requiresServerConversion are absent there, i.e. falsy).  src is not a
\* field of the program's record: it remembers which input, dispatched at
\* which position, the record was made from.
ImageResult(file, targetFormat, index, blobSize) ==
    [name |-> OutputName(file, index, targetFormat),
     blob |-> [from |-> "canvas", of |-> file],
     originalSize |-> Size(file),
     convertedSize |-> blobSize,
     format |-> Upper(targetFormat),
     isVideo |-> FALSE,
     requiresServerConversion |-> FALSE,
     src |-> [file |-> file, index |-> index]]

\* the record convertVideoWithFFmpeg resolves with after a transcode
TranscodeResult(file, targetFormat, index, blobSize) ==
    [name |-> OutputName(file, index, targetFormat),
     blob |-> [from |-> "ffmpeg", of |-> file],
     originalSize |-> Size(file),
     convertedSize |-> blobSize,
     format |-> Upper(targetFormat),
     isVideo |-> TRUE,
     requiresServerConversion |-> FALSE,
     src |-> [file |-> file, index |-> index]]

\* a fallback that reports a size other than the input's
FallbackResultResized(file, targetFormat, index) ==
    [name |-> OutputName(file, index, targetFormat),
     blob |-> [from |-> "input", of |-> file],
     originalSize |-> Size(file),
     convertedSize |-> Size(file) \div 2,
     format |-> Upper(targetFormat),
     isVideo |-> TRUE,
     requiresServerConversion |-> TRUE,
     src |-> [file |-> file, index |-> index]]

\* the record the rename-only fallback of convertSingleVideoAsync resolves
\* with: blob is the input file itself
FallbackResult(file, targetFormat, index) ==
    [name |-> OutputName(file, index, targetFormat),
     blob |-> [from |-> "input", of |-> file],
     originalSize |-> Size(file),
     convertedSize |-> Size(file),
     format |-> Upper(targetFormat),
     isVideo |-> TRUE,
     requiresServerConversion |-> TRUE,
     src |-> [file |-> file, index |-> index]]

\* clearSelection
ClearSelection ==
    /\ selectedFiles' = <<>>
    /\ convertedMedia' = <<>>

\* --------------------------------------------------------- file selection
\* handleDrop / handleFileSelect -> processFiles(files), from the call to
\* this.selectedFiles = mediaFiles (or to the return after clearSelection).
\* What runs before the first yieldToMain only rewrites the upload area and
\* the filter reads nothing but the argument, so the yield is not a
\* position of its own.
ProcessFiles(files) ==
    /\ ~Busy
    /\ pf.pc = "idle"
    /\ LET mediaFiles == SelectSeq(files, IsMedia)
       IN  IF Len(mediaFiles) = 0
           THEN /\ notification' = Note("no valid image or video files found")
                /\ ClearSelection
                /\ pf' = IdlePf
           ELSE /\ notification' =
                      IF Len(files) - Len(mediaFiles) > 0
                      THEN Note("unsupported files skipped")
                      ELSE notification
                /\ selectedFiles' = mediaFiles
                /\ pf' = [pc |-> "pf_update"]
                /\ UNCHANGED convertedMedia
    /\ UNCHANGED <<isConverting, ffmpegLoaded, ffmpegLoading, mediaType, cm,
                   call>>

\* processFiles after its remaining yields (showFileInfo and
\* showOptionsSection touch the page only): updateMediaTypeBasedOnFiles,
\* which reads this.selectedFiles as it is by then
PfUpdate ==
    /\ ~Busy
    /\ pf.pc = "pf_update"
    /\ LET hasImages == \E k \in DOMAIN selectedFiles : IsImage(selectedFiles[k])
           hasVideos == \E k \in DOMAIN selectedFiles : IsVideo(selectedFiles[k])
       IN  IF hasVideos /\ hasImages
           THEN /\ mediaType' = "image"
                /\ notification' = Note("mixed file types detected")
           ELSE IF hasVideos
           THEN /\ mediaType' = "video"
                /\ notification' = Note("detected videos")
           ELSE /\ mediaType' = "image"
                /\ notification' = Note("detected files")
    /\ pf' = IdlePf
    /\ UNCHANGED <<selectedFiles, convertedMedia, isConverting, ffmpegLoaded,
                   ffmpegLoading, cm, call>>

\* keydown Escape: clearSelection unless a batch is running
Escape ==
    /\ ~Busy
    /\ IF ~isConverting
       THEN ClearSelection
       ELSE UNCHANGED <<selectedFiles, convertedMedia>>
    /\ UNCHANGED <<isConverting, ffmpegLoaded, ffmpegLoading, mediaType,
                   notification, cm, pf, call>>

\* batchRename() with the pattern input left at '{name}': {name} becomes
\* 'converted' (media.originalName is never set), and the extension is
\* media.format
BatchRename ==
    /\ ~Busy
    /\ convertedMedia' =
           [k \in DOMAIN convertedMedia |->
               [convertedMedia[k] EXCEPT
                   !.name = Replace(<<"{name}">>, "{name}", <<"converted">>)
                                \o <<Dot, convertedMedia[k].format>>]]
    /\ notification' = Note("batch rename applied")
    /\ UNCHANGED <<selectedFiles, isConverting, ffmpegLoaded, ffmpegLoading,
                   mediaType, cm, pf, call>>

\* ------------------------------------------------------------ convertMedia
OtherVars == <<mediaType, pf, call>>

\* a convertMedia whose reentrancy test never fires
NeverConverting == FALSE

\* the reentrancy test of convertMedia: if (this.isConverting)
AlreadyConverting == isConverting

\* convertMedia() from its first line to the first await (or, when no
\* engine load is needed, to the set-up before the loop).  The click
\* handler of #convertBtn calls it unconditionally.
ConvertMedia(c) ==
    /\ ~Busy
    /\ FreeCall(c)
    /\ IF Len(selectedFiles) = 0
       THEN /\ notification' = "please select files first"
            /\ UNCHANGED <<isConverting, cm>>
       ELSE IF AlreadyConverting
       THEN /\ notification' = "conversion already in progress"
            /\ UNCHANGED <<isConverting, cm>>
       ELSE LET format == IF mediaType = "video" THEN VideoFormatSelect
                          ELSE FormatSelect
                quality == Control("qualitySlider")
                hasVideoFiles ==
                    \E k \in DOMAIN selectedFiles : IsVideo(selectedFiles[k])
            IN  /\ isConverting' = TRUE
                /\ IF hasVideoFiles /\ ~ffmpegLoaded
                   THEN /\ notification' = Note("preparing video converter")
                        /\ cm' = [cm EXCEPT ![c] =
                               [IdleCall EXCEPT !.pc = "load_enter",
                                                !.retpc = "cm_loaded",
                                                !.format = format,
                                                !.quality = quality]]
                   ELSE /\ UNCHANGED notification
                        /\ cm' = [cm EXCEPT ![c] =
                               [IdleCall EXCEPT !.pc = "cm_setup",
                                                !.format = format,
                                                !.quality = quality]]
    /\ UNCHANGED <<selectedFiles, convertedMedia, ffmpegLoaded, ffmpegLoading>>
    /\ UNCHANGED OtherVars

\* keydown Ctrl/Cmd+Enter: convertMedia() only when idle and files selected
CtrlEnter(c) ==
    IF ~isConverting /\ Len(selectedFiles) > 0
    THEN ConvertMedia(c)
    ELSE /\ ~Busy
         /\ FreeCall(c)
         /\ UNCHANGED vars

\* a loadFFmpeg that looks at ffmpegLoaded only, not at ffmpegLoading
LoadEnterWhileLoading(c) ==
    /\ cm[c].pc = "load_enter"
    /\ IF ffmpegLoaded
       THEN /\ cm' = [cm EXCEPT ![c].pc = cm[c].retpc,
                                ![c].loadRet = ffmpegLoaded,
                                ![c].loadVia = "flags"]
            /\ UNCHANGED <<ffmpegLoading, notification>>
       ELSE /\ ffmpegLoading' = TRUE
            /\ notification' = Note("loading video converter engine")
            /\ cm' = [cm EXCEPT ![c].pc = "load_wait"]
    /\ UNCHANGED <<selectedFiles, convertedMedia, isConverting, ffmpegLoaded>>
    /\ UNCHANGED OtherVars

\* a loadFFmpeg that looks at ffmpegLoading only, not at ffmpegLoaded
LoadEnterWhenLoaded(c) ==
    /\ cm[c].pc = "load_enter"
    /\ IF ffmpegLoading
       THEN /\ cm' = [cm EXCEPT ![c].pc = cm[c].retpc,
                                ![c].loadRet = ffmpegLoaded,
                                ![c].loadVia = "flags"]
            /\ UNCHANGED <<ffmpegLoading, notification>>
       ELSE /\ ffmpegLoading' = TRUE
            /\ notification' = Note("loading video converter engine")
            /\ cm' = [cm EXCEPT ![c].pc = "load_wait"]
    /\ UNCHANGED <<selectedFiles, convertedMedia, isConverting, ffmpegLoaded>>
    /\ UNCHANGED OtherVars

\* loadFFmpeg() up to its first await
LoadEnter(c) ==
    /\ cm[c].pc = "load_enter"
    /\ IF ffmpegLoaded \/ ffmpegLoading
       THEN /\ cm' = [cm EXCEPT ![c].pc = cm[c].retpc,
                                ![c].loadRet = ffmpegLoaded,
                                ![c].loadVia = "flags"]
            /\ UNCHANGED <<ffmpegLoading, notification>>
       ELSE /\ ffmpegLoading' = TRUE
            /\ notification' = Note("loading video converter engine")
            /\ cm' = [cm EXCEPT ![c].pc = "load_wait"]
    /\ UNCHANGED <<selectedFiles, convertedMedia, isConverting, ffmpegLoaded>>
    /\ UNCHANGED OtherVars

\* loadFFmpeg(): toBlobURL and ffmpeg.load settle (ok) or throw (~ok);
\* finally resets ffmpegLoading
LoadDone(c, ok) ==
    /\ ~Busy
    /\ cm[c].pc = "load_wait"
    /\ ffmpegLoaded' = (ffmpegLoaded \/ ok)
    /\ ffmpegLoading' = FALSE
    /\ notification' = IF ok THEN Note("video converter ready")
                       ELSE Note("video conversion unavailable - using fallback")
    /\ cm' = [cm EXCEPT ![c].pc = cm[c].retpc,
                        ![c].loadRet = ok,
                        ![c].loadVia = "load"]
    /\ UNCHANGED <<selectedFiles, convertedMedia, isConverting>>
    /\ UNCHANGED OtherVars

\* convertMedia after await this.loadFFmpeg()
CmLoaded(c) ==
    /\ cm[c].pc = "cm_loaded"
    /\ notification' = IF cm[c].loadRet THEN notification
                       ELSE Note("video conversion unavailable - will rename only")
    /\ cm' = [cm EXCEPT ![c].pc = "cm_setup", ![c].loaded = IF cm[c].loadRet THEN "yes" ELSE "no"]
    /\ UNCHANGED <<selectedFiles, convertedMedia, isConverting, ffmpegLoaded,
                   ffmpegLoading>>
    /\ UNCHANGED OtherVars

\* convertMedia: button state, progress section, this.convertedMedia = [],
\* the two counters
\* These statements stand before the try: when showProgressSection throws
\* (~ok; it reads the style of #progressSection and #convertBtn unguarded)
\* the invocation ends there, and neither the catch nor the finally of
\* convertMedia runs.
CmSetup(c, ok) ==
    /\ cm[c].pc = "cm_setup"
    /\ IF ok
       THEN /\ convertedMedia' = <<>>
            /\ cm' = [cm EXCEPT ![c].pc = "cm_loop", ![c].i = 0,
                                ![c].successCount = 0,
                                ![c].failureCount = 0]
       ELSE /\ convertedMedia' = convertedMedia
            /\ cm' = [cm EXCEPT ![c] = IdleCall]
    /\ UNCHANGED <<selectedFiles, isConverting, ffmpegLoaded, ffmpegLoading,
                   notification>>
    /\ UNCHANGED OtherVars

\* the head of the for loop and the dispatch of file i to its stage, up to
\* the first await of the stage; past the last file, on to the summary
LoopHead(c) ==
    /\ cm[c].pc = "cm_loop"
    /\ IF cm[c].i < Len(selectedFiles)
       THEN LET file == selectedFiles[cm[c].i + 1]
                cleared == [cm[c] EXCEPT !.file = file, !.ffCall = 0,
                              !.outSize = 0, !.execs = 0, !.revokes = 0,
                              !.outcome = "none", !.ret = NULL]
            IN  cm' = [cm EXCEPT ![c] =
                    IF IsImage(file)
                    THEN [cleared EXCEPT !.pc = "img_load"]
                    ELSE IF IsVideo(file)
                    THEN [cleared EXCEPT !.pc = "ff_enter", !.ffCall = 1]
                    ELSE [cleared EXCEPT !.pc = "cm_yield",
                                         !.outcome = "resolved"]]
       ELSE cm' = [cm EXCEPT ![c].pc = "cm_summary"]
    /\ UNCHANGED <<selectedFiles, convertedMedia, isConverting, ffmpegLoaded,
                   ffmpegLoading, notification>>
    /\ UNCHANGED OtherVars

\* a loop that goes on to the next file without the yield
StageResolveNoYield(c, r) ==
    /\ convertedMedia' = IF r # NULL THEN Append(convertedMedia, r)
                         ELSE convertedMedia
    /\ cm' = [cm EXCEPT ![c].pc = "cm_loop",
                        ![c].i = @ + 1,
                        ![c].successCount = IF r # NULL THEN @ + 1 ELSE @,
                        ![c].outcome = "resolved",
                        ![c].ret = r]

\* the stage resolved with r: if (convertedMedia) { push; successCount++ },
\* then await this.yieldToMain()
StageResolve(c, r) ==
    /\ convertedMedia' = IF r # NULL THEN Append(convertedMedia, r)
                         ELSE convertedMedia
    /\ cm' = [cm EXCEPT ![c].pc = "cm_yield",
                        ![c].successCount = IF r # NULL THEN @ + 1 ELSE @,
                        ![c].outcome = "resolved",
                        ![c].ret = r]

\* a catch that gives the batch up at the first failed file
StageRejectAborts(c) ==
    /\ convertedMedia' = convertedMedia
    /\ cm' = [cm EXCEPT ![c].pc = "cm_summary",
                        ![c].failureCount = @ + 1,
                        ![c].outcome = "rejected"]

\* the stage rejected: catch { failureCount++ }, then await yieldToMain()
StageReject(c) ==
    /\ convertedMedia' = convertedMedia
    /\ cm' = [cm EXCEPT ![c].pc = "cm_yield",
                        ![c].failureCount = @ + 1,
                        ![c].outcome = "rejected"]

\* the timer of the loop's yieldToMain fires: i++
CmYield(c) ==
    /\ ~Busy
    /\ cm[c].pc = "cm_yield"
    /\ cm' = [cm EXCEPT ![c].pc = "cm_loop", ![c].i = @ + 1]
    /\ UNCHANGED <<selectedFiles, convertedMedia, isConverting, ffmpegLoaded,
                   ffmpegLoading, notification>>
    /\ UNCHANGED OtherVars

\* after the loop: preview, summary notification (or the outer catch), and
\* finally { this.isConverting = false }
CmSummary(c) ==
    /\ cm[c].pc = "cm_summary"
    /\ notification' = Note("converted files")
    /\ isConverting' = FALSE
    /\ cm' = [cm EXCEPT ![c] = IdleCall]
    /\ UNCHANGED <<selectedFiles, convertedMedia, ffmpegLoaded, ffmpegLoading>>
    /\ UNCHANGED OtherVars

\* ------------------------------------------------- convertSingleImageAsync
StageFrame == <<selectedFiles, isConverting, ffmpegLoaded, ffmpegLoading,
                notification, mediaType, pf, call>>

\* a cleanup that releases nothing
NoCleanup(inv) == inv

\* cleanup(): URL.revokeObjectURL(fileURL), by the invocation inv
Cleanup(inv) == [inv EXCEPT !.revokes = @ + 1]

\* img.onerror, or the catch of img.onload: cleanup(), reject(..), and then
\* what convertMedia does with a rejected stage (as StageReject)
ImgReject(c) ==
    /\ convertedMedia' = convertedMedia
    /\ cm' = [cm EXCEPT ![c] = [Cleanup(cm[c]) EXCEPT
                                  !.pc = "cm_yield",
                                  !.failureCount = @ + 1,
                                  !.outcome = "rejected"]]

\* the end of img.onload: cleanup(), resolve(convertedFile), and then what
\* convertMedia does with the record (as StageResolve)
ImgResolve(c, r) ==
    /\ convertedMedia' = Append(convertedMedia, r)
    /\ cm' = [cm EXCEPT ![c] = [Cleanup(cm[c]) EXCEPT
                                  !.pc = "cm_yield",
                                  !.successCount = @ + 1,
                                  !.outcome = "resolved",
                                  !.ret = r]]

\* img.onload (then await yieldToMain) or img.onerror (cleanup, reject)
ImgLoad(c, ok) ==
    /\ ~Busy
    /\ cm[c].pc = "img_load"
    /\ IF ok
       THEN /\ cm' = [cm EXCEPT ![c].pc = "img_draw"]
            /\ UNCHANGED convertedMedia
       ELSE ImgReject(c)
    /\ UNCHANGED StageFrame

\* onload after its first yield: dimensions, filter, drawImage, then the
\* second yield; an exception goes to the catch (cleanup, reject)
ImgDraw(c, ok) ==
    /\ ~Busy
    /\ cm[c].pc = "img_draw"
    /\ IF ok
       THEN /\ cm' = [cm EXCEPT ![c].pc = "img_encode"]
            /\ UNCHANGED convertedMedia
       ELSE ImgReject(c)
    /\ UNCHANGED StageFrame

\* onload after its second yield: pattern, canvas.toDataURL, fetch(dataURL)
ImgEncode(c, ok) ==
    /\ ~Busy
    /\ cm[c].pc = "img_encode"
    /\ IF ok
       THEN /\ cm' = [cm EXCEPT ![c].pc = "img_blob"]
            /\ UNCHANGED convertedMedia
       ELSE ImgReject(c)
    /\ UNCHANGED StageFrame

\* fetch and response.blob() settle: the record is built and resolved
ImgBlob(c, ok, blobSize) ==
    /\ ~Busy
    /\ cm[c].pc = "img_blob"
    /\ IF ok
       THEN ImgResolve(c, ImageResult(cm[c].file, cm[c].format, cm[c].i,
                                      blobSize))
       ELSE ImgReject(c)
    /\ UNCHANGED StageFrame

\* ------------------------------------------- the engine's working namespace
\* The files of ffmpeg.wasm's file system and the clock behind Date.now()
\* are followed only where the transcode is looked at on its own
\* (call.fn = "engine", see SpecEngine); elsewhere the clock reads 0 and the
\* namespace is left out, which keeps the state space of Spec as it is.
\*   now     the last reading of the clock
\*   files   the names that exist in the namespace
\*   taken   the working names the attempts so far have been given
MaxClock == 1

EngineFollowed == call.fn = "engine"

NewEngine == [fn |-> "engine", now |-> 0, files |-> {}, taken |-> {}]

\* the values Date.now() can return when the last reading was `last`: the
\* clock does not run backwards
DateNow(last) == IF EngineFollowed THEN last..MaxClock ELSE {0}
LastReading == IF EngineFollowed THEN call.now ELSE 0

\* `input_${Date.now()}.${file.name.split('.').pop()}`
WorkingInputName(now, file) ==
    [prefix |-> "input_", now |-> now, ext |-> SplitPop(FileName(file), Dot)]

\* `output_${Date.now()}.${targetFormat}`
WorkingOutputName(now, targetFormat) ==
    [prefix |-> "output_", now |-> now, ext |-> <<targetFormat>>]

\* the clock was read (last at `now`) and the names were built
TakeNames(e, now, names) ==
    IF e.fn = "engine"
    THEN [e EXCEPT !.now = now, !.taken = @ \cup names]
    ELSE e

\* ffmpeg.writeFile(name, ..) and the output ffmpeg.exec leaves behind
WriteFile(e, name) ==
    IF e.fn = "engine" THEN [e EXCEPT !.files = @ \cup {name}] ELSE e

\* ffmpeg.deleteFile(name)
DeleteFile(e, name) ==
    IF e.fn = "engine" THEN [e EXCEPT !.files = @ \ {name}] ELSE e

\* what an action of convertVideoWithFFmpeg leaves alone besides cm,
\* convertedMedia and the engine
EngineFrame == <<selectedFiles, isConverting, ffmpegLoaded, ffmpegLoading,
                 notification, mediaType, pf>>

\* ------------------------------------------------- convertSingleVideoAsync
\* convertVideoWithFFmpeg returned v to convertSingleVideoAsync.  The first
\* call is the condition of the if: truthy -> the function is called again
\* and that second value is what the stage returns; falsy -> the rename-only
\* fallback starts (await yieldToMain).
\* The locals of the call that returned (the two working names) are gone.
FfReturn(c, v) ==
    IF cm[c].ffCall = 1
    THEN /\ cm' = [cm EXCEPT
                ![c].pc = IF v # NULL THEN "ff_enter" ELSE "fb_yield",
                ![c].ffCall = IF v # NULL THEN 2 ELSE 1,
                ![c].argsQuality = 0,
                ![c].inputName = NULL,
                ![c].outputName = NULL,
                ![c].deleteFailed = FALSE]
         /\ UNCHANGED convertedMedia
    ELSE /\ convertedMedia' = IF v # NULL THEN Append(convertedMedia, v)
                              ELSE convertedMedia
         /\ cm' = [cm EXCEPT
                ![c].pc = "cm_yield",
                ![c].successCount = IF v # NULL THEN @ + 1 ELSE @,
                ![c].argsQuality = 0,
                ![c].inputName = NULL,
                ![c].outputName = NULL,
                ![c].deleteFailed = FALSE,
                ![c].outcome = "resolved",
                ![c].ret = v]

\* convertVideoWithFFmpeg: if (!this.ffmpegLoaded) await this.loadFFmpeg(),
\* else straight on to await this.yieldToMain()
FfEnter(c) ==
    /\ cm[c].pc = "ff_enter"
    /\ cm' = [cm EXCEPT
           ![c].pc = IF ~ffmpegLoaded THEN "load_enter" ELSE "ff_yield",
           ![c].retpc = IF ~ffmpegLoaded THEN "ff_loaded" ELSE @]
    /\ UNCHANGED convertedMedia
    /\ UNCHANGED StageFrame

\* a convertVideoWithFFmpeg that goes on without looking at `loaded`
FfLoadedUnchecked(c) ==
    /\ cm[c].pc = "ff_loaded"
    /\ cm' = [cm EXCEPT ![c].pc = "ff_yield"]
    /\ UNCHANGED convertedMedia
    /\ UNCHANGED StageFrame

\* convertVideoWithFFmpeg after loadFFmpeg: if (!loaded) return null
FfLoaded(c) ==
    /\ cm[c].pc = "ff_loaded"
    /\ IF cm[c].loadRet
       THEN /\ cm' = [cm EXCEPT ![c].pc = "ff_yield"]
            /\ UNCHANGED convertedMedia
       ELSE FfReturn(c, NULL)
    /\ UNCHANGED StageFrame

\* after the yield: the two working names, each from a reading of the
\* clock (t1, then t2), and file.arrayBuffer()
FfYield(c, t1, t2) ==
    /\ ~Busy
    /\ cm[c].pc = "ff_yield"
    /\ t1 \in DateNow(LastReading)
    /\ t2 \in DateNow(t1)
    /\ LET inputName == WorkingInputName(t1, cm[c].file)
           outputName == WorkingOutputName(t2, cm[c].format)
       IN  /\ cm' = [cm EXCEPT ![c].pc = "ff_write",
                               ![c].inputName = inputName,
                               ![c].outputName = outputName]
           /\ call' = TakeNames(call, t2, {inputName, outputName})
    /\ UNCHANGED convertedMedia
    /\ UNCHANGED EngineFrame

\* arrayBuffer and ffmpeg.writeFile settle, buildFFmpegArgs reads the
\* quality slider and exec is called; or they throw into the catch
FfWrite(c, ok) ==
    /\ ~Busy
    /\ cm[c].pc = "ff_write"
    /\ IF ok
       THEN /\ cm' = [cm EXCEPT ![c].pc = "ff_exec",
                                ![c].argsQuality = Control("qualitySlider")]
            /\ call' = WriteFile(call, cm[c].inputName)
            /\ UNCHANGED convertedMedia
       ELSE /\ FfReturn(c, NULL)
            /\ UNCHANGED call
    /\ UNCHANGED EngineFrame

\* ffmpeg.exec(args) settles and has written the output, or throws into the
\* catch (taken here as having written nothing)
FfExec(c, ok) ==
    /\ ~Busy
    /\ cm[c].pc = "ff_exec"
    /\ IF ok
       THEN /\ cm' = [cm EXCEPT ![c].pc = "ff_read", ![c].execs = @ + 1]
            /\ call' = WriteFile(call, cm[c].outputName)
            /\ UNCHANGED convertedMedia
       ELSE /\ FfReturn(c, NULL)
            /\ UNCHANGED call
    /\ UNCHANGED EngineFrame

\* ffmpeg.readFile(outputName) settles with blobSize bytes, or throws
FfRead(c, ok, blobSize) ==
    /\ ~Busy
    /\ cm[c].pc = "ff_read"
    /\ IF ok
       THEN /\ cm' = [cm EXCEPT ![c].pc = "ff_delete",
                                ![c].outSize = blobSize]
            /\ UNCHANGED convertedMedia
       ELSE FfReturn(c, NULL)
    /\ UNCHANGED StageFrame

\* the two deleteFile calls, in one try: both settle (failAt = 0), or the
\* first throws (1) and the second is not made, or the second throws (2);
\* a failure is only logged.  Then the output is handed to a video element.
FfDelete(c, failAt) ==
    /\ ~Busy
    /\ cm[c].pc = "ff_delete"
    /\ cm' = [cm EXCEPT ![c].pc = "ff_probe",
                        ![c].deleteFailed = (failAt # 0)]
    /\ call' = CASE failAt = 0 ->
                     DeleteFile(DeleteFile(call, cm[c].inputName),
                                cm[c].outputName)
                 [] failAt = 1 -> call
                 [] failAt = 2 -> DeleteFile(call, cm[c].inputName)
    /\ UNCHANGED convertedMedia
    /\ UNCHANGED EngineFrame

\* video.onloadedmetadata (the record) or video.onerror (null)
FfProbe(c, ok) ==
    /\ ~Busy
    /\ cm[c].pc = "ff_probe"
    /\ IF ok
       THEN FfReturn(c, TranscodeResult(cm[c].file, cm[c].format, cm[c].i,
                                        cm[c].outSize))
       ELSE FfReturn(c, NULL)
    /\ UNCHANGED StageFrame

\* the fallback after its yield: pattern, object URL, video.src
FbYield(c) ==
    /\ ~Busy
    /\ cm[c].pc = "fb_yield"
    /\ cm' = [cm EXCEPT ![c].pc = "fb_probe"]
    /\ UNCHANGED convertedMedia
    /\ UNCHANGED StageFrame

\* the fallback's video.onloadedmetadata (resolve) or video.onerror (reject)
FbProbe(c, ok) ==
    /\ ~Busy
    /\ cm[c].pc = "fb_probe"
    /\ IF ok
       THEN StageResolve(c, FallbackResult(cm[c].file, cm[c].format, cm[c].i))
       ELSE StageReject(c)
    /\ UNCHANGED StageFrame

\* --------------------------------------------------------------- behaviour
Next ==
    \/ \E files \in DropLists : ProcessFiles(files)
    \/ PfUpdate
    \/ Escape
    \/ BatchRename
    \/ \E c \in Calls : ConvertMedia(c)
    \/ \E c \in Calls : CtrlEnter(c)
    \/ \E c \in Calls : LoadEnter(c)
    \/ \E c \in Calls, ok \in BOOLEAN : LoadDone(c, ok)
    \/ \E c \in Calls : CmLoaded(c)
    \/ \E c \in Calls, ok \in BOOLEAN : CmSetup(c, ok)
    \/ \E c \in Calls : LoopHead(c)
    \/ \E c \in Calls : CmYield(c)
    \/ \E c \in Calls : CmSummary(c)
    \/ \E c \in Calls, ok \in BOOLEAN : ImgLoad(c, ok)
    \/ \E c \in Calls, ok \in BOOLEAN : ImgDraw(c, ok)
    \/ \E c \in Calls, ok \in BOOLEAN : ImgEncode(c, ok)
    \/ \E c \in Calls, ok \in BOOLEAN :
          \E blobSize \in EncodedSizes(cm[c].file) : ImgBlob(c, ok, blobSize)
    \/ \E c \in Calls : FfEnter(c)
    \/ \E c \in Calls : FfLoaded(c)
    \/ \E c \in Calls, t1, t2 \in 0..MaxClock : FfYield(c, t1, t2)
    \/ \E c \in Calls, ok \in BOOLEAN : FfWrite(c, ok)
    \/ \E c \in Calls, ok \in BOOLEAN : FfExec(c, ok)
    \/ \E c \in Calls, ok \in BOOLEAN :
          \E blobSize \in EncodedSizes(cm[c].file) : FfRead(c, ok, blobSize)
    \/ \E c \in Calls, failAt \in 0..2 : FfDelete(c, failAt)
    \/ \E c \in Calls, ok \in BOOLEAN : FfProbe(c, ok)
    \/ \E c \in Calls : FbYield(c)
    \/ \E c \in Calls, ok \in BOOLEAN : FbProbe(c, ok)

Spec == Init /\ [][Next]_vars

\* ------------------------------------------------- loadFFmpeg on its own
\* loadFFmpeg() called by callers of its own (the object is reachable as
\* window.converter), in any interleaving: a caller calls, awaits the
\* value, and takes it.
LoadCall(c) ==
    /\ ~Busy
    /\ cm[c].pc = "idle"
    /\ cm' = [cm EXCEPT ![c] = [IdleCall EXCEPT !.pc = "load_enter",
                                               !.retpc = "ld_returned"]]
    /\ UNCHANGED <<selectedFiles, convertedMedia, isConverting, ffmpegLoaded,
                   ffmpegLoading, notification>>
    /\ UNCHANGED OtherVars

\* the caller is done with the value
LoadForget(c) ==
    /\ ~Busy
    /\ cm[c].pc = "ld_returned"
    /\ cm' = [cm EXCEPT ![c] = IdleCall]
    /\ UNCHANGED <<selectedFiles, convertedMedia, isConverting, ffmpegLoaded,
                   ffmpegLoading, notification>>
    /\ UNCHANGED OtherVars

NextLoad ==
    \/ \E c \in Loaders : LoadCall(c)
    \/ \E c \in Loaders : LoadEnter(c)
    \/ \E c \in Loaders, ok \in BOOLEAN : LoadDone(c, ok)
    \/ \E c \in Loaders : LoadForget(c)

SpecLoad == Init /\ [][NextLoad]_vars

\* ---------------------------------------------- the transcode on its own
\* The user selects the video and converts it, again and again; the
\* engine's namespace and the clock are followed.
VideoDrops ==
    {files \in DropLists :
        files # <<>> /\ \A k \in DOMAIN files : IsVideo(files[k])}

InitEngine ==
    /\ Constructed
    /\ call = NewEngine

NextEngine ==
    \/ \E files \in VideoDrops : ProcessFiles(files)
    \/ PfUpdate
    \/ \E c \in Calls : ConvertMedia(c)
    \/ \E c \in Calls : LoadEnter(c)
    \/ \E c \in Calls, ok \in BOOLEAN : LoadDone(c, ok)
    \/ \E c \in Calls : CmLoaded(c)
    \/ \E c \in Calls, ok \in BOOLEAN : CmSetup(c, ok)
    \/ \E c \in Calls : LoopHead(c)
    \/ \E c \in Calls : CmYield(c)
    \/ \E c \in Calls : CmSummary(c)
    \/ \E c \in Calls : FfEnter(c)
    \/ \E c \in Calls : FfLoaded(c)
    \/ \E c \in Calls, t1, t2 \in 0..MaxClock : FfYield(c, t1, t2)
    \/ \E c \in Calls, ok \in BOOLEAN : FfWrite(c, ok)
    \/ \E c \in Calls, ok \in BOOLEAN : FfExec(c, ok)
    \/ \E c \in Calls, ok \in BOOLEAN :
          \E blobSize \in EncodedSizes(cm[c].file) : FfRead(c, ok, blobSize)
    \/ \E c \in Calls, failAt \in 0..2 : FfDelete(c, failAt)
    \/ \E c \in Calls, ok \in BOOLEAN : FfProbe(c, ok)
    \/ \E c \in Calls : FbYield(c)
    \/ \E c \in Calls, ok \in BOOLEAN : FbProbe(c, ok)

SpecEngine == InitEngine /\ [][NextEngine]_vars

\* ------------------------------------------- the pure methods on their own
\* A pure method is called with arguments drawn from a bounded set; the rest
\* of the object stays as constructed.
MainVars == <<selectedFiles, convertedMedia, isConverting, ffmpegLoaded,
              ffmpegLoading, mediaType, notification, cm, pf>>

\* ---------------------------------------------- the settings on their own
\* The user selects one file, converts it, and moves the quality slider or
\* types into the filename pattern input at any time.
QualityValues == {50, QualityDefault}
PatternValues == {<<>>, <<"{name}", "_", "{index}">>}

SingleDrops ==
    {files \in DropLists : Len(files) = 1 /\ IsMedia(files[1])}

InitSettings ==
    /\ Constructed
    /\ call = NewSettings

\* the user moves #qualitySlider; the input listener rewrites a label only
QualityInput(q) ==
    /\ ~Busy
    /\ SettingsFollowed
    /\ call' = [call EXCEPT !.qualitySlider = q]
    /\ UNCHANGED MainVars

\* the user types into #filenamePattern (no listener)
PatternInput(p) ==
    /\ ~Busy
    /\ SettingsFollowed
    /\ call' = [call EXCEPT !.filenamePattern = p]
    /\ UNCHANGED MainVars

NextSettings ==
    \/ \E q \in QualityValues : QualityInput(q)
    \/ \E p \in PatternValues : PatternInput(p)
    \/ \E files \in SingleDrops : ProcessFiles(files)
    \/ PfUpdate
    \/ \E c \in Calls : ConvertMedia(c)
    \/ \E c \in Calls : LoadEnter(c)
    \/ \E c \in Calls, ok \in BOOLEAN : LoadDone(c, ok)
    \/ \E c \in Calls : CmLoaded(c)
    \/ \E c \in Calls, ok \in BOOLEAN : CmSetup(c, ok)
    \/ \E c \in Calls : LoopHead(c)
    \/ \E c \in Calls : CmYield(c)
    \/ \E c \in Calls : CmSummary(c)
    \/ \E c \in Calls, ok \in BOOLEAN : ImgLoad(c, ok)
    \/ \E c \in Calls, ok \in BOOLEAN : ImgDraw(c, ok)
    \/ \E c \in Calls, ok \in BOOLEAN : ImgEncode(c, ok)
    \/ \E c \in Calls, ok \in BOOLEAN :
          \E blobSize \in EncodedSizes(cm[c].file) : ImgBlob(c, ok, blobSize)
    \/ \E c \in Calls : FfEnter(c)
    \/ \E c \in Calls : FfLoaded(c)
    \/ \E c \in Calls, t1, t2 \in 0..MaxClock : FfYield(c, t1, t2)
    \/ \E c \in Calls, ok \in BOOLEAN : FfWrite(c, ok)
    \/ \E c \in Calls, ok \in BOOLEAN : FfExec(c, ok)
    \/ \E c \in Calls, ok \in BOOLEAN :
          \E blobSize \in EncodedSizes(cm[c].file) : FfRead(c, ok, blobSize)
    \/ \E c \in Calls, failAt \in 0..2 : FfDelete(c, failAt)
    \/ \E c \in Calls, ok \in BOOLEAN : FfProbe(c, ok)
    \/ \E c \in Calls : FbYield(c)
    \/ \E c \in Calls, ok \in BOOLEAN : FbProbe(c, ok)

SpecSettings == InitSettings /\ [][NextSettings]_vars

\* largest index a stage is called with
MaxIndex == 4

\* values of the filename pattern input
Patterns ==
    {<<"{name}">>,
     <<"{name}", "_", "{index}", "_", "{date}">>,
     <<"{index}", "_", "{index}">>,
     <<"{foo}", "_", "{name}">>,
     <<"photo">>,
     <<"{format}", "_", "{original_format}">>,
     <<"{time}", "_", "{timestamp}">>,
     <<"v", Dot, "{index}">>}

\* values of file.name
OriginalNames ==
    {<<"vacation", Dot, "png">>,
     <<"my", Dot, "photo", Dot, "PNG">>,
     <<"README">>,
     <<"{index}", Dot, "png">>}

TargetFormats == {"png", "mp4"}

InitNaming ==
    /\ Constructed
    /\ call \in [fn : {"name"}, pc : {"pattern"}, pattern : Patterns,
                  originalName : OriginalNames, index : 0..MaxIndex,
                  targetFormat : TargetFormats, fileName : {<<>>},
                  name : {<<>>}]

\* const fileName = this.applyFileNamePattern(pattern, file.name, index)
DoApplyFileNamePattern ==
    /\ call.fn = "name"
    /\ call.pc = "pattern"
    /\ call' = [call EXCEPT
                   !.pc = "extension",
                   !.fileName = applyFileNamePattern(call.pattern,
                                    call.originalName, call.index)]
    /\ UNCHANGED MainVars

\* name: this.getConvertedFileName(fileName, targetFormat)
DoGetConvertedFileName ==
    /\ call.fn = "name"
    /\ call.pc = "extension"
    /\ call' = [call EXCEPT
                   !.pc = "done",
                   !.name = getConvertedFileName(call.fileName,
                                call.targetFormat)]
    /\ UNCHANGED MainVars

NextNaming == DoApplyFileNamePattern \/ DoGetConvertedFileName

SpecNaming == InitNaming /\ [][NextNaming]_vars

\* ------------------------------------------------ calculateResizeDimensions
\* A JavaScript number that is an integer >= 0, or NaN, or Infinity.
\* Quotients are taken exactly; the rounding error of the double division
\* is left out.
Num(n) == [kind |-> "int", n |-> n]
NaN == [kind |-> "NaN", n |-> 0]
Infinity == [kind |-> "Infinity", n |-> 0]

\* the .value of a number input: empty (or the element is missing), or the
\* digits of n
Empty == [set |-> FALSE, n |-> 0]
Typed(n) == [set |-> TRUE, n |-> n]

\* parseInt(input) || original
ParseIntOr(input, original) ==
    IF input.set /\ input.n # 0 THEN input.n ELSE original

\* a quotient cut off instead of rounded
TruncDiv(num, den) == num \div den

\* Math.round(num / den) for num >= 0, den > 0: halves go up
RoundDiv(num, den) == (2 * num + den) \div (2 * den)

\* Math.round(width / (originalWidth / originalHeight))
RoundWidthOverRatio(width, originalWidth, originalHeight) ==
    IF originalWidth > 0 /\ originalHeight > 0
    THEN Num(RoundDiv(width * originalHeight, originalWidth))
    ELSE IF originalWidth > 0 THEN Num(0)            \* width / Infinity
    ELSE IF originalHeight = 0 THEN NaN              \* width / NaN
    ELSE IF width > 0 THEN Infinity                  \* width / 0
    ELSE NaN                                         \* 0 / 0

\* Math.round(height * (originalWidth / originalHeight))
RoundHeightTimesRatio(height, originalWidth, originalHeight) ==
    IF originalHeight > 0
    THEN Num(RoundDiv(height * originalWidth, originalHeight))
    ELSE IF originalWidth = 0 THEN NaN               \* height * NaN
    ELSE IF height > 0 THEN Infinity                 \* height * Infinity
    ELSE NaN                                         \* 0 * Infinity

\* calculateResizeDimensions, with the three values it reads from the page
\* as arguments
calculateResizeDimensions(originalWidth, originalHeight, widthInput, heightInput, lockAspect) ==
    LET width == ParseIntOr(widthInput, originalWidth)
        height == ParseIntOr(heightInput, originalHeight)
    IN  IF ~widthInput.set /\ ~heightInput.set
        THEN [width |-> Num(originalWidth), height |-> Num(originalHeight)]
        ELSE IF lockAspect /\ widthInput.set /\ ~heightInput.set
        THEN [width |-> Num(width),
              height |-> RoundWidthOverRatio(width, originalWidth,
                                             originalHeight)]
        ELSE IF lockAspect /\ heightInput.set /\ ~widthInput.set
        THEN [width |-> RoundHeightTimesRatio(height, originalWidth,
                                              originalHeight),
              height |-> Num(height)]
        ELSE [width |-> Num(width), height |-> Num(height)]

\* sizes tried: the small ones, and those of a 1000 x 500 image resized to
\* a width of 400
MaxDim == 3
OriginalSizes == (0..MaxDim) \cup {500, 1000}
InputValues == {Empty} \cup {Typed(n) : n \in (0..MaxDim) \cup {400}}

InitResize ==
    /\ Constructed
    /\ call \in [fn : {"resize"}, pc : {"call"},
                  originalWidth : OriginalSizes,
                  originalHeight : OriginalSizes,
                  widthInput : InputValues, heightInput : InputValues,
                  lockAspect : BOOLEAN,
                  ret : {[width |-> NaN, height |-> NaN]}]

\* const dimensions = this.calculateResizeDimensions(img.width, img.height)
DoCalculateResizeDimensions ==
    /\ call.fn = "resize"
    /\ call.pc = "call"
    /\ call' = [call EXCEPT
                   !.pc = "done",
                   !.ret = calculateResizeDimensions(
                               call.originalWidth, call.originalHeight,
                               call.widthInput, call.heightInput,
                               call.lockAspect)]
    /\ UNCHANGED MainVars

NextResize == DoCalculateResizeDimensions

SpecResize == InitResize /\ [][NextResize]_vars

\* ------------------------------------------------------------ getFileFormat
\* file.type.split('/')[1] for a type with a '/' in it: what stands between
\* the first '/' and the next one (or the end)
Subtype(type) ==
    LET rest == SubSeq(type, IndexOf(type, Slash) + 2, Len(type))
    IN  IF IndexOf(rest, Slash) = -1 THEN rest
        ELSE SubSeq(rest, 1, IndexOf(rest, Slash))

\* formatMap[mimeFormat] || mimeFormat
FormatMap(mimeFormat) ==
    CASE mimeFormat = <<"jpeg">>      -> <<"jpg">>
      [] mimeFormat = <<"svg+xml">>   -> <<"svg">>
      [] mimeFormat = <<"x-ms-wmv">>  -> <<"wmv">>
      [] mimeFormat = <<"quicktime">> -> <<"mov">>
      [] OTHER                        -> mimeFormat

\* getFileFormat(file), for a file.type that is empty or has a '/' in it
getFileFormat(file) ==
    IF file.type # <<>>
    THEN FormatMap(Subtype(file.type))
    ELSE LET extension == ToLowerCase(SplitPop(file.name, Dot))
         IN  IF extension # <<>> THEN extension ELSE <<"unknown">>

\* values of file.type and file.name
FileTypes ==
    {<<>>,
     <<"image", Slash, "jpeg">>, <<"image", Slash, "png">>,
     <<"image", Slash, "webp">>, <<"image", Slash, "gif">>,
     <<"image", Slash, "svg+xml">>,
     <<"video", Slash, "mp4">>, <<"video", Slash, "x-ms-wmv">>,
     <<"video", Slash, "quicktime">>,
     <<"application", Slash, "octet-stream">>}

FormatFileNames ==
    {<<"a", Dot, "png">>, <<"photo", Dot, "JPG">>, <<"clip", Dot, "MOV">>,
     <<"my", Dot, "photo", Dot, "PNG">>, <<"README">>, <<"archive", Dot>>}

InitFormat ==
    /\ Constructed
    /\ call \in [fn : {"format"}, pc : {"call"},
                  file : [type : FileTypes, name : FormatFileNames],
                  ret : {<<>>}]

\* this.getFileFormat(file)
DoGetFileFormat ==
    /\ call.fn = "format"
    /\ call.pc = "call"
    /\ call' = [call EXCEPT !.pc = "done", !.ret = getFileFormat(call.file)]
    /\ UNCHANGED MainVars

NextFormat == DoGetFileFormat

SpecFormat == InitFormat /\ [][NextFormat]_vars

\* ------------------------------------------------- the download server
\* src/server.js, the Express backend, is a program of its own: while it is
\* followed (call.fn = "server") the page stays as constructed.  The rate
\* limit of 100 requests per address and window is left out: requests come
\* from any number of addresses.
\*   nextId            the downloads started so far, plus one
\*                     (generateDownloadId gives every download a new id)
\*   downloadProgress  the Map of that name: the entry of an id, or NULL
\*   running           the ids whose yt-dlp process was spawned and has not
\*                     closed
\*   cancelled         the ids for which DELETE /cancel has answered success
\*   response          the last response sent: route and status (the two
\*                     POST routes as one), and the id a GET asked for
\*   crashed           a listener threw; nothing catches it, node exits
maxConcurrentDownloads == 3

\* downloads the clients start in all
MaxDownloads == 4
DownloadIds == 1..MaxDownloads

ServerFollowed == call.fn = "server"

NoResponse == [route |-> "none", id |-> 0, status |-> 0]

NewServer ==
    [fn |-> "server", nextId |-> 1,
     downloadProgress |-> [id \in DownloadIds |-> NULL],
     running |-> {}, cancelled |-> {}, response |-> NoResponse,
     crashed |-> FALSE]

InitServer ==
    /\ Constructed
    /\ call = NewServer

\* the entry both POST routes set before they spawn
Starting ==
    [status |-> "starting", progress |-> 0, eta |-> "null", speed |-> "null"]

\* POST /api/youtube/download and POST /api/youtube/audio, which differ in
\* the arguments of yt-dlp only: validation (400), or a new id, its entry,
\* and spawn, with the listeners attached.  The response waits for close.
PostDownload(route, valid) ==
    /\ ServerFollowed /\ ~call.crashed
    /\ IF ~valid
       THEN call' = [call EXCEPT
                        !.response = [route |-> "download", id |-> 0,
                                      status |-> 400]]
       ELSE /\ call.nextId <= MaxDownloads
            /\ call' = [call EXCEPT
                          !.nextId = @ + 1,
                          !.downloadProgress[call.nextId] = Starting,
                          !.running = @ \cup {call.nextId}]
    /\ UNCHANGED MainVars

\* what the three regular expressions find in a chunk of output: nothing,
\* a percentage alone, or a whole progress line of yt-dlp
Chunks ==
    {[progressMatch |-> FALSE, speedMatch |-> FALSE, etaMatch |-> FALSE],
     [progressMatch |-> TRUE, speedMatch |-> FALSE, etaMatch |-> FALSE],
     [progressMatch |-> TRUE, speedMatch |-> TRUE, etaMatch |-> TRUE]}

\* process.stdout.on('data'): with a match, the entry is set anew; a field
\* without a match is read from downloadProgress.get(downloadId), which
\* throws a TypeError when the entry is gone
StdoutData(downloadId, chunk) ==
    /\ ServerFollowed /\ ~call.crashed
    /\ downloadId \in call.running
    /\ LET old == call.downloadProgress[downloadId]
           readsOld == ~(chunk.progressMatch /\ chunk.speedMatch
                            /\ chunk.etaMatch)
       IN  IF ~(chunk.progressMatch \/ chunk.speedMatch \/ chunk.etaMatch)
           THEN call' = call
           ELSE IF old = NULL /\ readsOld
           THEN call' = [call EXCEPT !.crashed = TRUE]
           ELSE call' = [call EXCEPT !.downloadProgress[downloadId] =
                    [status |-> "downloading",
                     progress |-> IF chunk.progressMatch THEN 50
                                  ELSE old.progress,
                     speed |-> IF chunk.speedMatch THEN "1.0MiB/s"
                               ELSE old.speed,
                     eta |-> IF chunk.etaMatch THEN "00:10" ELSE old.eta]]
    /\ UNCHANGED MainVars

\* process.on('close'): the entry is deleted and the POST is answered
Close(downloadId, code) ==
    /\ ServerFollowed /\ ~call.crashed
    /\ downloadId \in call.running
    /\ call' = [call EXCEPT
                   !.running = @ \ {downloadId},
                   !.downloadProgress[downloadId] = NULL,
                   !.response = [route |-> "download", id |-> 0,
                                 status |-> IF code = 0 THEN 200 ELSE 500]]
    /\ UNCHANGED MainVars

\* GET /api/youtube/progress/:downloadId
GetProgress(downloadId) ==
    /\ ServerFollowed /\ ~call.crashed
    /\ call' = [call EXCEPT
                   !.response =
                       [route |-> "progress", id |-> downloadId,
                        status |-> IF call.downloadProgress[downloadId] = NULL
                                   THEN 404 ELSE 200]]
    /\ UNCHANGED MainVars

\* DELETE /api/youtube/cancel/:downloadId
Cancel(downloadId) ==
    /\ ServerFollowed /\ ~call.crashed
    /\ IF call.downloadProgress[downloadId] # NULL
       THEN call' = [call EXCEPT
                        !.downloadProgress[downloadId] = NULL,
                        !.cancelled = @ \cup {downloadId},
                        !.response = [route |-> "cancel", id |-> 0,
                                      status |-> 200]]
       ELSE call' = [call EXCEPT
                        !.response = [route |-> "cancel", id |-> 0,
                                      status |-> 404]]
    /\ UNCHANGED MainVars

NextServer ==
    \/ \E route \in {"download", "audio"}, valid \in BOOLEAN :
          PostDownload(route, valid)
    \/ \E downloadId \in DownloadIds, chunk \in Chunks :
          StdoutData(downloadId, chunk)
    \/ \E downloadId \in DownloadIds, code \in {0, 1} :
          Close(downloadId, code)
    \/ \E downloadId \in DownloadIds : GetProgress(downloadId)
    \/ \E downloadId \in DownloadIds : Cancel(downloadId)

SpecServer == InitServer /\ [][NextServer]_vars

\* ================================================================= claims
StagePcs == ImagePcs \cup VideoPcs

\* C1: when convertMedia reaches its summary, every file the loop went
\* through (i of them, i being the length of the list at the loop's exit)
\* was counted exactly once: successCount + failureCount = i.
C1_EveryFileCounted ==
    \A c \in Calls :
        cm[c].pc = "cm_summary" =>
            cm[c].successCount + cm[c].failureCount = cm[c].i

\* C2: a convertMedia call made while isConverting is true shows
\* 'conversion already in progress' and leaves isConverting, convertedMedia,
\* every invocation's counters and position and the engine flags as they
\* were.
C2_SecondCallRejected ==
    [][\A c \in Calls :
          (isConverting /\ ConvertMedia(c)) =>
              /\ notification' = "conversion already in progress"
              /\ UNCHANGED <<isConverting, convertedMedia, selectedFiles, cm,
                             ffmpegLoaded, ffmpegLoading>>]_vars

\* The part of C2 about the state alone: a convertMedia call made while
\* isConverting is true changes nothing but the notification.
C2_SecondCallChangesNothing ==
    [][\A c \in Calls :
          (isConverting /\ ConvertMedia(c)) =>
              UNCHANGED <<isConverting, convertedMedia, selectedFiles, cm,
                          ffmpegLoaded, ffmpegLoading, mediaType, pf>>]_vars

\* C3: a stage that fails for the file at position i adds exactly one to
\* failureCount, adds nothing to successCount or convertedMedia, and sends
\* the loop to its yield; the yield leads to position i + 1, and the loop
\* head dispatches the file at its position whenever the list has one
\* there, and leaves the loop only past the end of the list.
C3_FailureDoesNotStopBatch ==
    [][\A c \in Calls :
          /\ (cm[c].outcome # "rejected" /\ cm'[c].outcome = "rejected") =>
                /\ cm[c].pc \in StagePcs
                /\ cm'[c].failureCount = cm[c].failureCount + 1
                /\ cm'[c].successCount = cm[c].successCount
                /\ cm'[c].i = cm[c].i
                /\ cm'[c].pc = "cm_yield"
                /\ convertedMedia' = convertedMedia
          /\ (cm'[c].failureCount # cm[c].failureCount /\ cm'[c].pc # "idle") =>
                cm'[c].outcome = "rejected" /\ cm[c].outcome # "rejected"
          /\ (cm[c].pc = "cm_yield" /\ cm'[c] # cm[c]) =>
                /\ cm'[c].pc = "cm_loop"
                /\ cm'[c].i = cm[c].i + 1
                /\ cm'[c].failureCount = cm[c].failureCount
                /\ cm'[c].successCount = cm[c].successCount
          /\ (cm[c].pc = "cm_loop" /\ cm'[c] # cm[c]) =>
                IF cm[c].i < Len(selectedFiles)
                THEN /\ cm'[c].file = selectedFiles[cm[c].i + 1]
                     /\ cm'[c].i = cm[c].i
                     /\ cm'[c].pc \in StagePcs
                ELSE cm'[c].pc = "cm_summary"]_vars

\* C3 witness: a file failed and the loop is converting a later one
C3_Witness ==
    \E c \in Calls :
        /\ cm[c].failureCount >= 1
        /\ cm[c].i >= 1
        /\ cm[c].pc \in StagePcs

\* C4: when a batch reaches its summary, every result in convertedMedia was
\* made from the file that stands in selectedFiles at the position the
\* stage was given as index, and the results stand in ascending order of
\* that position.
C4_ResultsInInputOrder ==
    \A c \in Calls :
        cm[c].pc = "cm_summary" =>
            /\ \A k \in DOMAIN convertedMedia :
                  LET r == convertedMedia[k]
                  IN  /\ r.src.index + 1 \in DOMAIN selectedFiles
                      /\ selectedFiles[r.src.index + 1] = r.src.file
            /\ \A k, l \in DOMAIN convertedMedia :
                  k < l => convertedMedia[k].src.index
                               < convertedMedia[l].src.index

\* C5 as claimed: once the load awaited by convertMedia has failed, every
\* video result of that batch is a fallback result.
C5_LoadFailureForcesFallback ==
    \A c \in Calls :
        (cm[c].loaded = "no" /\ cm[c].pc \notin {"cm_setup"}) =>
            \A k \in DOMAIN convertedMedia :
                convertedMedia[k].isVideo =>
                    /\ convertedMedia[k].requiresServerConversion
                    /\ convertedMedia[k].convertedSize
                           = convertedMedia[k].originalSize

\* C5 as amended: as long as the engine is not loaded, every video result
\* is a fallback result (requiresServerConversion, convertedSize =
\* originalSize), and a video stage that resolves resolves with one.
C5_NotLoadedForcesFallback ==
    ~ffmpegLoaded =>
        /\ \A k \in DOMAIN convertedMedia :
              convertedMedia[k].isVideo =>
                  /\ convertedMedia[k].requiresServerConversion
                  /\ convertedMedia[k].convertedSize
                         = convertedMedia[k].originalSize
        /\ \A c \in Calls :
              (cm[c].pc = "cm_yield" /\ IsVideo(cm[c].file)
                  /\ cm[c].outcome = "resolved") =>
                     /\ cm[c].ret # NULL
                     /\ cm[c].ret.requiresServerConversion
                     /\ cm[c].ret.convertedSize = cm[c].ret.originalSize

\* C5 witness: the load awaited by convertMedia failed, the engine is still
\* not loaded, and the video of the batch has its result
C5_Witness ==
    /\ ~ffmpegLoaded
    /\ \E c \in Calls :
          /\ cm[c].loaded = "no"
          /\ cm[c].pc = "cm_yield"
          /\ IsVideo(cm[c].file)
          /\ cm[c].outcome = "resolved"
          /\ \E k \in DOMAIN convertedMedia : convertedMedia[k] = cm[c].ret

\* C6: for one video file ffmpeg.exec runs to completion at most once.
C6_TranscodeAtMostOnce ==
    \A c \in Calls : cm[c].execs <= 1

\* C7: a video stage that resolves never resolves with null, and what it
\* resolves with, unless it is the output of a transcode, is the fallback
\* record with requiresServerConversion set.
C7_FailedTranscodeFallsBack ==
    \A c \in Calls :
        (cm[c].pc = "cm_yield" /\ IsVideo(cm[c].file)
            /\ cm[c].outcome = "resolved") =>
               /\ cm[c].ret # NULL
               /\ (cm[c].ret.blob.from # "ffmpeg"
                      => cm[c].ret.requiresServerConversion)

\* C8: every result with requiresServerConversion has the input file itself
\* as its blob and convertedSize = originalSize = the input's size, and no
\* result whose blob is the output of a transcode has the flag.
C8_ServerConversionFlagExact ==
    \A k \in DOMAIN convertedMedia :
        LET r == convertedMedia[k]
        IN  /\ r.requiresServerConversion =>
                  /\ r.blob = [from |-> "input", of |-> r.src.file]
                  /\ r.convertedSize = r.originalSize
                  /\ r.originalSize = Size(r.src.file)
            /\ r.blob.from = "ffmpeg" => ~r.requiresServerConversion

\* C8 witness: a fallback result and a transcoded result side by side
C8_Witness ==
    \E k, l \in DOMAIN convertedMedia :
        /\ convertedMedia[k].requiresServerConversion
        /\ convertedMedia[l].blob.from = "ffmpeg"

\* C9: while isConverting is true selectedFiles does not change, and
\* convertedMedia changes only in a step of a convertMedia invocation.
C9_OnlyBatchChangesLists ==
    [][isConverting =>
          /\ selectedFiles' = selectedFiles
          /\ (convertedMedia' # convertedMedia => cm' # cm)]_vars

\* C10: at most one convertMedia invocation is inside a per-file stage.
C10_AtMostOneStage ==
    Cardinality({c \in Calls : InStage(c)}) <= 1

\* C10 witness: a stage is in progress and a convert click has just been
\* turned away
C10_Witness ==
    /\ \E c \in Calls : InStage(c)
    /\ notification = "conversion already in progress"

\* the lists a drop can deliver that hold no image and no video
NoMediaLists ==
    {files \in DropLists :
        \A k \in DOMAIN files : Category(files[k]) \notin {"image", "video"}}

\* C11: every file in selectedFiles is an image or a video, in every state,
\* and a processFiles call whose argument holds no image and no video
\* leaves selectedFiles empty.
C11_OnlyMediaSelected ==
    /\ [](\A k \in DOMAIN selectedFiles :
             Category(selectedFiles[k]) \in {"image", "video"})
    /\ [][\A files \in NoMediaLists :
             ProcessFiles(files) => selectedFiles' = <<>>]_vars

\* C11 witness: processFiles has just skipped a file of another type and
\* kept the rest
C11_Witness ==
    /\ notification = "unsupported files skipped"
    /\ pf.pc = "pf_update"
    /\ selectedFiles # <<>>

\* C12: the name of a result is the expanded pattern, whole, followed by
\* '.' and the target format.
C12_NameIsPatternDotFormat ==
    (call.fn = "name" /\ call.pc = "done") =>
        call.name = call.fileName \o <<Dot, call.targetFormat>>

\* r is x rounded to the nearest integer, x = num / den, as an inequality:
\* r - 1/2 <= x < r + 1/2
IsRounded(r, num, den) ==
    /\ 2 * r * den - den <= 2 * num
    /\ 2 * num < 2 * r * den + den

C14_ResizePositive ==
    (call.fn = "resize" /\ call.pc = "done") =>
        /\ call.ret.width.kind = "int" /\ call.ret.width.n >= 1
        /\ call.ret.height.kind = "int" /\ call.ret.height.n >= 1

\* what a token stands for, as applyFileNamePattern computes it
TokenText(token, originalName, index) ==
    CASE token = "{name}" ->
             Substring(originalName, 0, LastIndexOf(originalName, Dot))
      [] token = "{index}" -> <<PadStart3(index + 1)>>
      [] token \in {"{format}", "{original_format}"} ->
             ToLowerCase(SplitPop(originalName, Dot))
      [] token = "{date}" -> <<"<date>">>
      [] token = "{time}" -> <<"<time>">>
      [] token = "{timestamp}" -> <<"<timestamp>">>

SupportedTokens ==
    {"{name}", "{index}", "{format}", "{original_format}", "{date}",
     "{time}", "{timestamp}"}

\* the pattern from position k on, read once from left to right: the first
\* occurrence of a supported token gives its text, every other atom itself
RECURSIVE ExpandedFrom(_, _, _, _)
ExpandedFrom(pattern, k, originalName, index) ==
    IF k > Len(pattern) THEN <<>>
    ELSE (IF pattern[k] \in SupportedTokens
             /\ \A l \in 1..(k - 1) : pattern[l] # pattern[k]
          THEN TokenText(pattern[k], originalName, index)
          ELSE <<pattern[k]>>)
         \o ExpandedFrom(pattern, k + 1, originalName, index)

\* C15: applyFileNamePattern returns the pattern with the first occurrence
\* of each supported token replaced by its text ({index} by index + 1 padded
\* to 3 digits) and everything else verbatim: later occurrences, unknown
\* tokens, and the text put in for a token, which is not expanded again.
C15_PatternExpandedOnce ==
    (call.fn = "name" /\ call.pc \in {"extension", "done"}) =>
        call.fileName
            = ExpandedFrom(call.pattern, 1, call.originalName, call.index)

\* The same for file names that hold no brace token.
C15_PatternExpandedOnceForPlainNames ==
    (/\ call.fn = "name" /\ call.pc \in {"extension", "done"}
     /\ \A k \in DOMAIN call.originalName :
           call.originalName[k] \notin SupportedTokens) =>
        call.fileName
            = ExpandedFrom(call.pattern, 1, call.originalName, call.index)

\* the resolver C16 describes: the subtype of an image/ or video/ type after
\* the alias table (jpeg stays jpeg); failing that the lower-cased
\* extension of the name; failing that 'unknown'
ReferenceFormat(file) ==
    LET recognized ==
            /\ file.type # <<>>
            /\ file.type[1] \in {"image", "video"}
            /\ Subtype(file.type) # <<>>
        sub == Subtype(file.type)
        hasExtension ==
            /\ LastIndexOf(file.name, Dot) # -1
            /\ SplitPop(file.name, Dot) # <<>>
    IN  IF recognized
        THEN CASE sub = <<"svg+xml">>   -> <<"svg">>
               [] sub = <<"x-ms-wmv">>  -> <<"wmv">>
               [] sub = <<"quicktime">> -> <<"mov">>
               [] OTHER                 -> sub
        ELSE IF hasExtension
        THEN ToLowerCase(SplitPop(file.name, Dot))
        ELSE <<"unknown">>

\* C16: getFileFormat returns what the reference resolver returns, on
\* every file.
C16_FormatAsReference ==
    (call.fn = "format" /\ call.pc = "done") =>
        call.ret = ReferenceFormat(call.file)

\* C17: the image stage has not released its object URL while it runs, and
\* has released it exactly once when it has settled, however it settled.
C17_ObjectURLReleasedOnce ==
    \A c \in Calls :
        /\ cm[c].pc \in ImagePcs => cm[c].revokes = 0
        /\ (cm[c].pc = "cm_yield" /\ IsImage(cm[c].file)) =>
               cm[c].revokes = 1

\* C17 witness: an image stage has failed and its URL is released
C17_Witness ==
    \E c \in Calls :
        /\ cm[c].pc = "cm_yield"
        /\ IsImage(cm[c].file)
        /\ cm[c].outcome = "rejected"
        /\ cm[c].revokes = 1

\* C18: isConverting is true only while a convertMedia invocation that
\* passed the guards is still running; every way such an invocation ends
\* sets it back to false, so that a later batch can be started.
C18_ConvertingOnlyWhileRunning ==
    isConverting => \E c \in Calls : cm[c].pc # "idle"

\* C19: at most one loadFFmpeg call is between the start of ffmpeg.load
\* and its settling, whatever the interleaving of the calls.
C19_OneLoadInFlight ==
    Cardinality({c \in Slots : cm[c].pc = "load_wait"}) <= 1

\* C19 witness: a load is in flight and another call, made while a load
\* was in flight, has come back from the test of the flags
C19_Witness ==
    \E c, d \in Slots :
        /\ cm[c].pc = "load_wait"
        /\ cm[d].pc = "ld_returned"
        /\ cm[d].loadVia = "flags"
        /\ ~ffmpegLoaded

\* C20: a loadFFmpeg call that finds a load in flight does not return in
\* that step: it waits for the load to settle.
C20_CallDuringLoadWaits ==
    [][\A c \in Slots :
          (cm[c].pc = "load_enter" /\ ffmpegLoading /\ cm'[c] # cm[c]) =>
              cm'[c].pc # cm[c].retpc]_vars

\* the engine state: the two flags of the object
EngineState == <<ffmpegLoaded, ffmpegLoading>>
Uninitialized == <<FALSE, FALSE>>
Loading == <<FALSE, TRUE>>
Ready == <<TRUE, FALSE>>

\* C21: the engine state is Uninitialized (which is also where a failed
\* load leaves it), Loading or Ready; it changes only from Uninitialized to
\* Loading and from Loading to Ready or back to Uninitialized; Ready is
\* never left, and a loadFFmpeg call made when Ready returns true in that
\* step without starting a load.
C21_EngineStates ==
    /\ [](EngineState \in {Uninitialized, Loading, Ready})
    /\ [][/\ EngineState' # EngineState =>
                \/ EngineState = Uninitialized /\ EngineState' = Loading
                \/ EngineState = Loading /\ EngineState' = Ready
                \/ EngineState = Loading /\ EngineState' = Uninitialized
          /\ \A c \in Slots :
                (cm[c].pc = "load_enter" /\ EngineState = Ready
                    /\ cm'[c] # cm[c]) =>
                       /\ cm'[c].pc = cm[c].retpc
                       /\ cm'[c].loadRet = TRUE
                       /\ EngineState' = Ready]_vars

\* C21 witness: the engine is Ready and a call made when it was Ready has
\* come back with true from the test of the flags
C21_Witness ==
    /\ EngineState = Ready
    /\ \E c \in Slots :
          /\ cm[c].pc = "ld_returned"
          /\ cm[c].loadVia = "flags"
          /\ cm[c].loadRet = TRUE

\* C22: a stage that settles, resolved or rejected, leaves the loop in its
\* yield; the loop goes on from the yield only in a task of its own (no
\* handler is in the middle of a run), to the next position; a stage is
\* entered only from the loop head, for the file at the loop's position;
\* and the position of a running loop changes nowhere but at the end of a
\* yield.  So two files are never converted without a yield between them.
C22_YieldBetweenFiles ==
    [][\A c \in Calls :
          /\ (cm[c].outcome = "none" /\ cm'[c].outcome # "none") =>
                cm'[c].pc = "cm_yield"
          /\ (cm[c].pc = "cm_yield" /\ cm'[c] # cm[c]) =>
                /\ ~Busy
                /\ cm'[c].pc = "cm_loop"
                /\ cm'[c].i = cm[c].i + 1
          /\ (~InStage(c) /\ InStage(c)') =>
                /\ cm[c].pc = "cm_loop"
                /\ cm[c].i < Len(selectedFiles)
                /\ cm'[c].file = selectedFiles[cm[c].i + 1]
                /\ cm'[c].i = cm[c].i
          /\ (cm'[c].i # cm[c].i /\ cm'[c].pc # "idle") =>
                cm[c].pc = "cm_yield"]_vars

\* C22 witness: the loop is in its yield after a file that failed, having
\* gone through the yield after an earlier file that succeeded
C22_Witness ==
    \E c \in Calls :
        /\ cm[c].pc = "cm_yield"
        /\ cm[c].outcome = "rejected"
        /\ cm[c].i >= 1
        /\ cm[c].successCount >= 1

\* the positions of a transcode attempt at which it holds working names
AttemptPcs == {"ff_write", "ff_exec", "ff_read", "ff_delete", "ff_probe"}

\* C23: the working names a transcode attempt is given were given to no
\* attempt before it, and the entry it writes is not one that is already
\* in the namespace.
C23_WorkingNamesDistinct ==
    [][\A c \in Calls :
          /\ (cm[c].pc = "ff_yield" /\ cm'[c].pc = "ff_write") =>
                /\ cm'[c].inputName \notin call.taken
                /\ cm'[c].outputName \notin call.taken
          /\ (cm[c].pc = "ff_write" /\ cm'[c].pc = "ff_exec") =>
                cm[c].inputName \notin call.files
          /\ (cm[c].pc = "ff_exec" /\ cm'[c].pc = "ff_read") =>
                cm[c].outputName \notin call.files]_vars

\* C28: when a transcode attempt ends, however it ends, and no deleteFile
\* call of it has thrown, the names it worked with are not in the
\* namespace.
C28_NoEntryLeftBehind ==
    [][\A c \in Calls :
          (cm[c].pc \in AttemptPcs /\ cm'[c].pc \notin AttemptPcs
              /\ ~cm[c].deleteFailed) =>
                 /\ cm[c].inputName \notin call'.files
                 /\ cm[c].outputName \notin call'.files]_vars

\* C24: the quality that goes into the arguments of a transcode is the one
\* convertMedia read when the batch started, whatever the user has done
\* with the slider since.
C24_SettingsOfBatchStart ==
    \A c \in Calls :
        cm[c].pc = "ff_exec" => cm[c].argsQuality = cm[c].quality

\* C26: every key of this.elements the stages read a setting from is in
\* the table, and the filename pattern a stage gets from it is the one in
\* the pattern input ('{name}' while the input is empty).
C26_SettingsReachPipeline ==
    /\ PipelineKeys \subseteq Elements
    /\ SettingsFollowed =>
          FilenamePattern = (IF call.filenamePattern # <<>>
                             THEN call.filenamePattern
                             ELSE <<"{name}">>)

\* the formats getMimeType knows, and those buildFFmpegArgs has a case for
ImageFormats == {"webp", "png", "jpeg", "gif", "bmp"}
VideoFormats == {"mp4", "webm", "avi", "mov"}

Mixed(files) ==
    /\ \E k \in DOMAIN files : IsImage(files[k])
    /\ \E k \in DOMAIN files : IsVideo(files[k])

\* C25: while the selection holds images and videos, an image stage runs
\* with an image format as its target and a video stage with a video
\* format.
C25_TargetFormatOfOwnKind ==
    Mixed(selectedFiles) =>
        \A c \in Calls :
            InStage(c) =>
                /\ IsImage(cm[c].file) => cm[c].format \in ImageFormats
                /\ IsVideo(cm[c].file) => cm[c].format \in VideoFormats

\* C27: the result at position k of convertedMedia was made from the file
\* the loop took from position k of selectedFiles (the stage's index, which
\* counts from 0, is k - 1), so that selectedFiles[k] is its original.
C27_ResultPairedWithInput ==
    \A k \in DOMAIN convertedMedia :
        convertedMedia[k].src.index = k - 1

\* C29: at most maxConcurrentDownloads yt-dlp processes run at a time.
C29_AtMostThreeDownloads ==
    ServerFollowed => Cardinality(call.running) <= maxConcurrentDownloads

\* C30: a download whose cancel was answered with success has no entry in
\* downloadProgress from then on, a GET of its progress is answered 404,
\* and no listener has thrown on a missing entry.
C30_CancelledStaysCancelled ==
    ServerFollowed =>
        /\ ~call.crashed
        /\ \A downloadId \in call.cancelled :
              /\ call.downloadProgress[downloadId] = NULL
              /\ (call.response.route = "progress"
                     /\ call.response.id = downloadId) =>
                        call.response.status = 404

====
